---- MODULE Spec2Model ----
(***************************************************************************)
(* A model of tdw's PyImpact (src/Python/tdw/py_impact.py): the pair cache *)
(* object_modes, get_sound, reset, and the helpers they call.              *)
(*                                                                         *)
(* Floating-point values are modelled as extended rationals: a finite      *)
(* fraction n/d, +inf/-inf, or NaN, with numpy's rules for 0/0, x/0,       *)
(* inf*0 and NaN comparisons.  Vectors are restricted to one axis, so a    *)
(* velocity or a contact normal is a signed integer.                       *)
(***************************************************************************)
EXTENDS Integers, Sequences, FiniteSets, TLC

VARIABLES
    initial_amp,         \* PyImpact.initial_amp
    prevent_distortion,  \* PyImpact.prevent_distortion
    object_modes,        \* PyImpact.object_modes: id2 -> (id1 -> CollisionInfo)
    last,                \* observation of the last operation and what it returned
    heard,               \* history: key -> the sound-producing calls on it since the reset
    requested_amp,       \* history: the initial_amp most recently passed to __init__ or reset
    seen_before_reset,   \* history: keys with count > 0 at a reset, not called since
    shifts,              \* history: key -> executions of line 409 on its entry since the reset
    ncalls,              \* number of operations so far (bounded by MaxCalls)
    pc,                  \* concurrent deployment: position of each thread in get_sound
    targ,                \* concurrent deployment: the arguments of each thread's call
    tret                 \* concurrent deployment: what each thread's call returned

vars == <<initial_amp, prevent_distortion, object_modes, last, heard,
          requested_amp, seen_before_reset, shifts, ncalls, pc, targ, tret>>

---------------------------------------------------------------------------
(* Bounds of the model *)

MaxCalls == 3

---------------------------------------------------------------------------
(* Extended rational arithmetic (numpy float64 semantics, exact) *)

Abs(i) == IF i < 0 THEN -i ELSE i

Sgn(i) == IF i < 0 THEN -1 ELSE IF i > 0 THEN 1 ELSE 0

RECURSIVE Gcd(_, _)
Gcd(a, b) == IF b = 0 THEN a ELSE Gcd(b, a % b)

NaN == [k |-> "nan", n |-> 0, d |-> 1]

Inf(s) == [k |-> "inf", n |-> s, d |-> 1]

Fin(n, d) ==
    LET g == Gcd(Abs(n), Abs(d))
        s == IF d < 0 THEN -1 ELSE 1
    IN  [k |-> "fin", n |-> (s * n) \div g, d |-> (s * d) \div g]

IsNaN(a) == a.k = "nan"

IsFinite(a) == a.k = "fin"

FSign(a) == Sgn(a.n)

FMul(a, b) ==
    IF IsNaN(a) \/ IsNaN(b) THEN NaN
    ELSE IF a.k = "inf" \/ b.k = "inf"
         THEN IF FSign(a) = 0 \/ FSign(b) = 0 THEN NaN ELSE Inf(FSign(a) * FSign(b))
         ELSE Fin(a.n * b.n, a.d * b.d)

FDiv(a, b) ==
    IF IsNaN(a) \/ IsNaN(b) THEN NaN
    ELSE IF a.k = "inf"
         THEN IF b.k = "inf" THEN NaN
              ELSE Inf(FSign(a) * (IF FSign(b) < 0 THEN -1 ELSE 1))
         ELSE IF b.k = "inf" THEN Fin(0, 1)
              ELSE IF b.n = 0
                   THEN IF a.n = 0 THEN NaN ELSE Inf(FSign(a))
                   ELSE Fin(a.n * b.d, a.d * b.n)

FAdd(a, b) ==
    IF IsNaN(a) \/ IsNaN(b) THEN NaN
    ELSE IF a.k = "inf"
         THEN IF b.k = "inf" /\ b.n # a.n THEN NaN ELSE a
         ELSE IF b.k = "inf" THEN b
              ELSE Fin(a.n * b.d + b.n * a.d, a.d * b.d)

FAbs(a) == IF IsNaN(a) THEN NaN ELSE [a EXCEPT !.n = Abs(a.n)]

\* a > b; False whenever an operand is NaN.
FGt(a, b) ==
    IF IsNaN(a) \/ IsNaN(b) THEN FALSE
    ELSE IF a.k = "inf" THEN a.n > 0 /\ ~(b.k = "inf" /\ b.n > 0)
         ELSE IF b.k = "inf" THEN b.n < 0
              ELSE a.n * b.d > b.n * a.d

\* np.max: NaN if any element is NaN.
RECURSIVE FMax(_)
FMax(s) ==
    IF Len(s) = 1 THEN s[1]
    ELSE LET m == FMax(Tail(s))
         IN  IF IsNaN(s[1]) \/ IsNaN(m) THEN NaN
             ELSE IF FGt(s[1], m) THEN s[1] ELSE m

RECURSIVE FSum(_)
FSum(s) == IF s = <<>> THEN Fin(0, 1) ELSE FAdd(s[1], FSum(Tail(s)))

\* np.mean: NaN for an empty list.
FMean(s) == FDiv(FSum(s), Fin(Len(s), 1))

CeilDiv(a, b) == -((-a) \div b)

Max2(a, b) == IF a > b THEN a ELSE b

Min2(a, b) == IF a < b THEN a ELSE b

\* The same sequence, as an explicit tuple (TLC then evaluates it once).
Tup(s) == s \o << >>

---------------------------------------------------------------------------
(* Material templates and Modes *)

NumModes == 10

SampleRate == 44100

Ids == {1, 2, 3}

Materials == {"wood", "ceramic"}

\* The material label the caller passes for each body.
MatOf == [i \in Ids |-> IF i = 2 THEN "ceramic" ELSE "wood"]

\* PyImpact.material_data: per material, cf (Hz), op (dB) and rt (seconds,
\* held here as a number of milliseconds to be divided by 1000).  The JSON
\* files are data outside the source tree; these values stand in for them.
material_data ==
    [m \in Materials |->
        [cf    |-> Tup([jm \in 1..NumModes |-> IF m = "wood" THEN 100 * jm ELSE 200 * jm]),
         op    |-> Tup([jm \in 1..NumModes |-> -60]),
         rt_ms |-> Tup([jm \in 1..NumModes |-> IF m = "wood" THEN 10 * jm ELSE 20 * jm])]]

\* Modes.__init__; power is the stray attribute line 330 creates (<<>> = absent).
Modes(f, p, t) == [frequencies |-> f, powers |-> p, decay_times |-> t, power |-> <<>>]

\* One value of each np.random.normal call of _get_object_modes, as a
\* multiple z of the call's standard deviation (the same z for the ten modes).
\* jf and jt are fractions: jf = JfTenths / 10 Hz, jt = JtTenThousandths / 10000 s.
JfTenths(data, jm, z) == data.cf[jm] * 10 + z * data.cf[jm]

JtTenThousandths(data, jm, z) == data.rt_ms[jm] * 10 + z * data.rt_ms[jm]

DrawJf(data, jm, z) == Fin(JfTenths(data, jm, z), 10)

DrawJp(data, jm, z) == data.op[jm] + z * 10

DrawJt(data, jm, z) == Fin(JtTenThousandths(data, jm, z), 10000)

\* Mutation of DrawAccepted: the loops test the draws against 0.
DrawAcceptedAboveZero(material, z) ==
    LET data == material_data[material]
    IN  \A jm \in 1..NumModes :
            /\ ~(JfTenths(data, jm, z.zf) < 0)
            /\ ~(JtTenThousandths(data, jm, z.zt) < 0)

\* The while loops of _get_object_modes leave only with jf >= 20 and
\* jt >= 0.001: `while jf < 20` and `while jt < 0.001` on the fractions.
DrawAccepted(material, z) ==
    LET data == material_data[material]
    IN  \A jm \in 1..NumModes :
            /\ ~(JfTenths(data, jm, z.zf) < 20 * 10)
            /\ ~(JtTenThousandths(data, jm, z.zt) < 10)

\* PyImpact._get_object_modes with the accepted draws z = [zf, zp, zt].
\* The template values are chosen so that every accepted draw is integral.
GetObjectModes(material, z) ==
    LET data == material_data[material]
    IN  Modes(Tup([jm \in 1..NumModes |-> DrawJf(data, jm, z.zf).n]),
              Tup([jm \in 1..NumModes |-> DrawJp(data, jm, z.zp)]),
              Tup([jm \in 1..NumModes |-> FMul(DrawJt(data, jm, z.zt), Fin(1000, 1)).n]))

\* Modes.sum_modes: number of samples of mode i (np.arange(0, max_len) is
\* empty when max_len <= 0).
ModeLen(m, i) ==
    Max2(0, CeilDiv(m.decay_times[i] * (80 + m.powers[i]) * SampleRate, 60 * 1000))

RECURSIVE SumLen(_, _)
SumLen(m, i) == IF i = 0 THEN 0 ELSE Max2(ModeLen(m, i), SumLen(m, i - 1))

\* The sample values of a rendered ModeSet are cosines and exponentials; the
\* model keeps the length class (empty or not) and an abstract ringing shape
\* whose first sample is positive (the sum of the 10^(p/20)).
Ring == <<1, -2>>

sum_modes(m) == IF SumLen(m, NumModes) = 0 THEN <<>> ELSE Ring

\* Modes.mode_add: zero-padded addition.
mode_add(a, b) ==
    IF Len(a) < Len(b)
    THEN Tup([i \in 1..Len(b) |-> IF i <= Len(a) THEN b[i] + a[i] ELSE b[i]])
    ELSE Tup([i \in 1..Len(a) |-> IF i <= Len(b) THEN a[i] + b[i] ELSE a[i]])

\* n_pts of synth_impact_modes; mass in grams (0.001 * mass_kg seconds).
NPts(mass_g) ==
    LET max_t_us == Min2(mass_g, 2000)   \* contact time in microseconds
    IN  CeilDiv(max_t_us * SampleRate, 1000000)

\* frc = sin(linspace(0, pi, n_pts)): the single sample sin(0) = 0 when
\* n_pts = 1, otherwise an abstract half-sine.
Pulse(n_pts) == IF n_pts = 1 THEN <<0>> ELSE <<0, 1, 0>>

RECURSIVE ConvAt(_, _, _, _)
ConvAt(h, frc, k, i) ==
    IF i > Len(h) THEN 0
    ELSE (IF k - i + 1 >= 1 /\ k - i + 1 <= Len(frc) THEN h[i] * frc[k - i + 1] ELSE 0)
         + ConvAt(h, frc, k, i + 1)

\* sg.fftconvolve: full linear convolution.
fftconvolve(h, frc) == Tup([k \in 1..(Len(h) + Len(frc) - 1) |-> ConvAt(h, frc, k, 1)])

ToF(s) == Tup([i \in 1..Len(s) |-> Fin(s[i], 1)])

FAbsSeq(s) == Tup([i \in 1..Len(s) |-> FAbs(s[i])])

\* PyImpact.synth_impact_modes; <<>> stands for the None of len(h) == 0.
synth_impact_modes(modes1, modes2, mass_g) ==
    LET h == mode_add(sum_modes(modes1), sum_modes(modes2))
    IN  IF Len(h) = 0 THEN <<>>
        ELSE LET x == ToF(fftconvolve(h, Pulse(NPts(mass_g))))
                 peak == FAbs(FMax(x))
             IN  Tup([i \in 1..Len(x) |-> FDiv(x[i], peak)])

\* make_impact_audio: the decay shift 20 * log10(amp2re1), amp2re1 = 10^e.
ShiftDecay(modes_2, e) ==
    [modes_2 EXCEPT !.decay_times = Tup([i \in 1..NumModes |-> modes_2.decay_times[i] + 20 * e])]

\* Lines 327-330: the perturbation of a repeat collision with noise n1, n2.
PerturbFirst(modes_1, n1) ==
    [modes_1 EXCEPT !.powers = Tup([i \in 1..NumModes |-> modes_1.powers[i] + n1[i]])]

\* Mutation of PerturbSecond: the noise is added to the decay times.
PerturbSecondDecay(modes_2, n2) ==
    [modes_2 EXCEPT !.decay_times =
        Tup([i \in 1..NumModes |-> modes_2.decay_times[i] + n2[i]])]

PerturbSecond(modes_2, n2) ==
    [modes_2 EXCEPT !.power = Tup([i \in 1..NumModes |-> modes_2.powers[i] + n2[i]])]


---------------------------------------------------------------------------
(* The pair cache and get_sound *)

\* Mutation of CollisionInfo: the two ModeSets are stored the other way round.
CollisionInfoSwapped(obj1_modes, obj2_modes, amp) ==
    [count |-> 0, amp |-> amp, init_speed |-> Fin(1, 1),
     obj1_modes |-> obj2_modes, obj2_modes |-> obj1_modes]

\* CollisionInfo.__init__ (init_speed defaults to 1).
CollisionInfo(obj1_modes, obj2_modes, amp) ==
    [count |-> 0, amp |-> amp, init_speed |-> Fin(1, 1),
     obj1_modes |-> obj1_modes, obj2_modes |-> obj2_modes]

\* Mutation of count_collisions: "self.count =+ 1" for "self.count += 1".
count_collisions_assign(info) == [info EXCEPT !.count = 1]

\* CollisionInfo.count_collisions.
count_collisions(info) == [info EXCEPT !.count = info.count + 1]

HasEntry(om, id2, id1) == id2 \in DOMAIN om /\ id1 \in DOMAIN om[id2]

\* The keys <<id2, id1>> of the cache.
Keys(om) == {k \in Ids \X Ids : HasEntry(om, k[1], k[2])}

\* self.object_modes.update({id2: {}})
PutOuter(om, id2) ==
    [o \in DOMAIN om \cup {id2} |-> IF o = id2 THEN << >> ELSE om[o]]

\* self.object_modes[id2].update({id1: info}) and attribute stores on the entry
PutEntry(om, id2, id1, info) ==
    [om EXCEPT ![id2] =
        [i \in DOMAIN om[id2] \cup {id1} |-> IF i = id1 THEN info ELSE om[id2][i]]]

\* Mutation of EnsureEntry: the outer dictionary is replaced on every call.
EnsureEntryFreshOuter(om, amp, a) ==
    PutEntry(PutOuter(om, a.id2), a.id2, a.id1,
             CollisionInfo(GetObjectModes(MatOf[a.id2], a.z1),
                           GetObjectModes(MatOf[a.id1], a.z2), amp))

\* Lines 264-269 of get_sound.
EnsureEntry(om, amp, a) ==
    LET om1 == IF a.id2 \notin DOMAIN om THEN PutOuter(om, a.id2) ELSE om
    IN  IF a.id1 \notin DOMAIN om1[a.id2]
        THEN PutEntry(om1, a.id2, a.id1,
                      CollisionInfo(GetObjectModes(MatOf[a.id2], a.z1),
                                    GetObjectModes(MatOf[a.id1], a.z2), amp))
        ELSE om1

\* Lines 275-297: the normal speed.  a.vel is get_relative_velocity() of a
\* Collision and the snapshot's velocity of body id2 for an
\* EnvironmentCollision; cos(arccos(c)) = c for the axis-aligned c in {-1, 1}.
NormalSpeed(a) ==
    LET vel   == IF a.obj_col THEN a.vel
                 ELSE IF a.id2 \in a.rb_ids THEN a.vel ELSE 0
        speed == Fin(Abs(vel), 1)
        nvel  == FDiv(Fin(vel, 1), speed)
        nspd  == Tup([jc \in 1..Len(a.normals) |->
                    LET tmp == FDiv(Fin(a.normals[jc], 1), Fin(Abs(a.normals[jc]), 1))
                    IN  FMul(speed, FMul(tmp, nvel))])
    IN  FMean(nspd)

\* Mutation of Unresolved: "and" for "or" between the two index tests.
UnresolvedOnlyIfBoth(obj_col, found1, found2) == obj_col /\ ~found1 /\ ~found2

\* Line 308: a body-body collision with an id missing from the snapshot.
Unresolved(obj_col, found1, found2) == obj_col /\ (~found1 \/ ~found2)

\* Lines 311-312: get_mass is handed the index None (it indexes a FlatBuffers
\* vector with it, which raises).
MassLookupFails(obj_col, found1, found2) == (obj_col /\ ~found1) \/ ~found2

\* Line 325: the amplitude of a repeat collision.
RepeatAmp(info, normal_speed) == FDiv(FMul(info.amp, normal_speed), info.init_speed)

\* Lines 320-323: what the first collision saves on the entry.
SaveFirst(info, normal_speed, modes_1, modes_2) ==
    [info EXCEPT !.init_speed = normal_speed,
                 !.obj1_modes = modes_1, !.obj2_modes = modes_2]

\* Mutation of SaveRepeat: the repeat branch also records its speed.
SaveRepeatAndSpeed(info, normal_speed, modes_1, modes_2) ==
    [info EXCEPT !.init_speed = normal_speed,
                 !.obj1_modes = modes_1, !.obj2_modes = modes_2]

\* Lines 332-333: what a repeat collision saves on the entry.
SaveRepeat(info, normal_speed, modes_1, modes_2) ==
    [info EXCEPT !.obj1_modes = modes_1, !.obj2_modes = modes_2]

\* Lines 298-337 of get_sound on a cache that holds the entry: the outcome
\* before the count is incremented.  snd = <<>> is "sound is None".
Synthesize(om, a) ==
    LET normal_speed == NormalSpeed(a)
        found1 == a.id1 \in a.rb_ids
        found2 == a.id2 \in a.rb_ids
        info   == om[a.id2][a.id1]
        none   == [om |-> om, out |-> "none", first |-> info.count = 0,
                   branch |-> "none", nspd |-> normal_speed, amp |-> NaN, snd |-> << >>]
    IN  IF Unresolved(a.obj_col, found1, found2) THEN none
        ELSE IF MassLookupFails(a.obj_col, found1, found2)
             THEN [none EXCEPT !.out = "error"]
        ELSE
        LET m1   == IF a.obj_col THEN a.rb_mass ELSE 1000 * 1000
            mass == Min2(m1, a.rb_mass)
        IN  IF info.count = 0
            THEN LET modes_1 == info.obj1_modes
                     modes_2 == ShiftDecay(info.obj2_modes, a.e)
                     sound   == synth_impact_modes(modes_1, modes_2, mass)
                 IN  [om |-> PutEntry(om, a.id2, a.id1,
                                      SaveFirst(info, normal_speed, modes_1, modes_2)),
                      out |-> IF sound = << >> THEN "none" ELSE "sound",
                      first |-> TRUE, branch |-> "first", nspd |-> normal_speed,
                      amp |-> info.amp, snd |-> sound]
            ELSE LET modes_1 == PerturbFirst(info.obj1_modes, a.n1)
                     modes_2 == PerturbSecond(info.obj2_modes, a.n2)
                     sound   == synth_impact_modes(modes_1, modes_2, mass)
                 IN  [om |-> PutEntry(om, a.id2, a.id1,
                                      SaveRepeat(info, normal_speed, modes_1, modes_2)),
                      out |-> IF sound = << >> THEN "none" ELSE "sound",
                      first |-> FALSE, branch |-> "repeat", nspd |-> normal_speed,
                      amp |-> RepeatAmp(info, normal_speed), snd |-> sound]

\* Lines 343-344: the clamp.
Clamp(pd, amp) == IF pd /\ FGt(amp, Fin(99, 100)) THEN Fin(99, 100) ELSE amp

\* Mutation of Normalize: np.max(sound) for np.max(np.abs(sound)).
NormalizeByMax(amp, sound) ==
    LET m == FMax(sound)
    IN  Tup([i \in 1..Len(sound) |-> FDiv(FMul(amp, sound[i]), m)])

\* Line 346: sound = amp * sound / np.max(np.abs(sound)).
Normalize(amp, sound) ==
    LET m == FMax(FAbsSeq(sound))
    IN  Tup([i \in 1..Len(sound) |-> FDiv(FMul(amp, sound[i]), m)])

\* The peak max(|output|) of a returned waveform.
Peak(wave) == FMax(FAbsSeq(wave))

\* PyImpact.is_valid_collision (the collision is not None).
is_valid_collision(a) == (a.obj_col /\ Abs(a.vel) > 0) \/ ~a.obj_col

\* Which of the conditions of a call its arguments meet.
CaseOf(a) ==
    IF ~is_valid_collision(a) THEN "invalid"
    ELSE IF a.obj_col /\ ~({a.id1, a.id2} \subseteq a.rb_ids) THEN "body_unresolved"
    ELSE IF ~a.obj_col /\ a.id2 \notin a.rb_ids THEN "env_unresolved"
    ELSE "resolved"

NoCall == [op |-> "init", key |-> <<0, 0>>, case |-> "none", out |-> "none",
           created |-> FALSE, first |-> FALSE, branch |-> "none", noise |-> << >>,
           revisit |-> FALSE, count_before |-> 0,
           nspd |-> NaN, amp_raw |-> NaN, amp |-> NaN, peak |-> NaN,
           z |-> << >>, e |-> 0]

\* Lines 338-347 of get_sound: what the call returns after Synthesize.
Returned(pd, r) ==
    IF r.out = "sound"
    THEN LET amp == Clamp(pd, r.amp)
         IN  [out |-> "sound", amp_raw |-> r.amp, amp |-> amp,
              peak |-> Peak(Normalize(amp, r.snd))]
    ELSE [out |-> r.out, amp_raw |-> NaN, amp |-> NaN, peak |-> NaN]

\* Line 340 on the entry of the call.
Counted(om, id2, id1) == PutEntry(om, id2, id1, count_collisions(om[id2][id1]))

\* The history of sound-producing calls after one more on key.
Heard(h, key, nspd) ==
    [k \in DOMAIN h \cup {key} |->
        IF k # key THEN h[k]
        ELSE IF key \in DOMAIN h THEN [h[key] EXCEPT !.n = h[key].n + 1]
             ELSE [speed |-> nspd, n |-> 1]]

\* The history of decay shifts after one more on the entry of key.
Shifted(h, key) ==
    [k \in DOMAIN h \cup {key} |->
        IF k # key THEN h[k] ELSE IF key \in DOMAIN h THEN h[key] + 1 ELSE 1]

\* PyImpact.get_sound as one call.
get_sound(a) ==
    /\ ncalls < MaxCalls
    /\ \A t \in DOMAIN pc : pc[t] = "idle"
    /\ DrawAccepted(MatOf[a.id2], a.z1) /\ DrawAccepted(MatOf[a.id1], a.z2)
    /\ \E r \in {Synthesize(EnsureEntry(object_modes, initial_amp, a), a)} :
       \E ret \in {Returned(prevent_distortion, r)} :
       LET key     == <<a.id2, a.id1>>
           created == ~HasEntry(object_modes, a.id2, a.id1)
       IN  /\ object_modes' = IF r.out = "sound" THEN Counted(r.om, a.id2, a.id1) ELSE r.om
           /\ last' = [op |-> "get_sound", key |-> key, case |-> CaseOf(a),
                       out |-> ret.out, created |-> created, first |-> r.first,
                       branch |-> r.branch,
                       noise |-> IF r.branch = "repeat" THEN <<a.n1, a.n2>> ELSE << >>,
                       revisit |-> key \in seen_before_reset,
                       count_before |-> IF created THEN 0
                                        ELSE object_modes[a.id2][a.id1].count,
                       nspd |-> r.nspd, amp_raw |-> ret.amp_raw, amp |-> ret.amp,
                       peak |-> ret.peak,
                       z |-> IF created THEN <<a.z1, a.z2>> ELSE << >>,
                       e |-> a.e]
           /\ heard' = IF r.out = "sound" THEN Heard(heard, key, r.nspd) ELSE heard
           /\ seen_before_reset' = seen_before_reset \ {key}
           /\ shifts' = IF r.branch = "first" THEN Shifted(shifts, key) ELSE shifts
    /\ ncalls' = ncalls + 1
    /\ UNCHANGED <<initial_amp, prevent_distortion, requested_amp, pc, targ, tret>>

\* The assert of __init__ and reset: 0 < initial_amp < 1.
ValidAmp(amp) == FGt(amp, Fin(0, 1)) /\ FGt(Fin(1, 1), amp)

\* Mutation of ResetEffect: the cache is not cleared.
ResetKeepsCache(om, cur_amp, amp) == [om |-> om, initial_amp |-> cur_amp]

\* PyImpact.reset: the assert, then self.object_modes.clear().
ResetEffect(om, cur_amp, amp) == [om |-> << >>, initial_amp |-> cur_amp]

reset(amp) ==
    /\ ncalls < MaxCalls
    /\ \A t \in DOMAIN pc : pc[t] = "idle"
    /\ IF ValidAmp(amp)
       THEN LET r == ResetEffect(object_modes, initial_amp, amp)
            IN  /\ object_modes' = r.om
                /\ initial_amp' = r.initial_amp
                /\ requested_amp' = amp
                /\ seen_before_reset' = seen_before_reset \cup
                       {k \in Keys(object_modes) : object_modes[k[1]][k[2]].count > 0}
                /\ heard' = << >>
                /\ shifts' = << >>
                /\ last' = [NoCall EXCEPT !.op = "reset"]
       ELSE /\ last' = [NoCall EXCEPT !.op = "reset", !.out = "error"]
            /\ UNCHANGED <<object_modes, initial_amp, requested_amp,
                           seen_before_reset, heard, shifts>>
    /\ ncalls' = ncalls + 1
    /\ UNCHANGED <<prevent_distortion, pc, targ, tret>>

---------------------------------------------------------------------------
(* Inputs of the sequential specification *)

AmpChoices == {Fin(1, 2)}

ResetAmps == {Fin(9, 10), Fin(1, 1)}

PairArgs == {<<1, 2>>, <<2, 1>>}   \* <<id1, id2>>: a pair and the same pair swapped

ThirdPair == <<3, 1>>              \* shares its outer id with <<2, 1>>

\* vel and contact normals with normal speeds NaN, 1, 2 and -1.
Kinematics ==
    {[vel |-> 0, normals |-> <<1>>], [vel |-> 1, normals |-> <<1>>],
     [vel |-> 2, normals |-> <<1>>], [vel |-> 1, normals |-> <<-1>>]}

MassLight == 20     \* grams: a contact pulse of a single sample

MassUnit == 1000    \* grams

DrawPlain == [zf |-> 0, zp |-> 0, zt |-> 0]

DrawDeep == [zf |-> -1, zp |-> -2, zt |-> 1]

DrawLow == [zf |-> -10, zp |-> 0, zt |-> -10]   \* below the floors: redrawn

DrawFloor == [zf |-> -8, zp |-> 0, zt |-> -9]   \* wood: 20 Hz and 1 ms, the floors

Noise(c) == Tup([i \in 1..NumModes |-> IF i % 2 = 1 THEN c ELSE -c])

Threads == {1, 2}

NoArgs == [id1 |-> 0, id2 |-> 0, obj_col |-> TRUE, vel |-> 0, normals |-> << >>,
           rb_ids |-> {}, rb_mass |-> 0, e |-> 0, z1 |-> DrawPlain, z2 |-> DrawPlain,
           n1 |-> Noise(0), n2 |-> Noise(0)]

\* A call on the pair p with every body in the snapshot, unit masses and
\* plain draws; the families below vary one aspect each.
BaseArgs(p) ==
    [id1 |-> p[1], id2 |-> p[2], obj_col |-> TRUE, vel |-> 1, normals |-> <<1>>,
     rb_ids |-> Ids, rb_mass |-> MassUnit, e |-> -1, z1 |-> DrawPlain, z2 |-> DrawPlain,
     n1 |-> Noise(2), n2 |-> Noise(-2)]

ArgsKinematic ==
    {[BaseArgs(p) EXCEPT !.obj_col = oc, !.vel = k.vel, !.normals = k.normals] :
        p \in PairArgs, oc \in BOOLEAN, k \in Kinematics}

ArgsMissing ==
    {[BaseArgs(p) EXCEPT !.obj_col = oc, !.rb_ids = Ids \ {i}] :
        p \in PairArgs, oc \in BOOLEAN, i \in {1, 2}}

ArgsDraw ==
    {[BaseArgs(p) EXCEPT !.z1 = z, !.z2 = z] : p \in PairArgs, z \in {DrawDeep, DrawLow, DrawFloor}}

ArgsLight == {[BaseArgs(p) EXCEPT !.rb_mass = MassLight] : p \in PairArgs}

Args == ArgsKinematic \cup ArgsMissing \cup ArgsDraw \cup ArgsLight
            \cup {BaseArgs(ThirdPair)}

Init ==
    /\ initial_amp \in AmpChoices
    /\ ValidAmp(initial_amp)
    /\ prevent_distortion \in BOOLEAN
    /\ object_modes = << >>
    /\ last = NoCall
    /\ heard = << >>
    /\ shifts = << >>
    /\ requested_amp = initial_amp
    /\ seen_before_reset = {}
    /\ ncalls = 0
    /\ pc = [t \in Threads |-> "idle"]
    /\ targ = [t \in Threads |-> NoArgs]
    /\ tret = [t \in Threads |-> "none"]

Next ==
    \/ \E a \in Args : get_sound(a)
    \/ \E amp \in ResetAmps : reset(amp)

Spec == Init /\ [][Next]_vars


---------------------------------------------------------------------------
(* get_sound called from two threads: one step per dictionary access *)

\* Line 264: `id2 not in self.object_modes`.
T_L264(t) ==
    /\ pc[t] = "L264"
    /\ pc' = [pc EXCEPT ![t] = IF targ[t].id2 \notin DOMAIN object_modes
                               THEN "L265" ELSE "L266"]
    /\ UNCHANGED <<initial_amp, prevent_distortion, object_modes, last, heard,
                   shifts, requested_amp, seen_before_reset, ncalls, targ, tret>>

\* Line 265: self.object_modes.update({id2: {}}).
T_L265(t) ==
    /\ pc[t] = "L265"
    /\ object_modes' = PutOuter(object_modes, targ[t].id2)
    /\ pc' = [pc EXCEPT ![t] = "L266"]
    /\ UNCHANGED <<initial_amp, prevent_distortion, last, heard,
                   shifts, requested_amp, seen_before_reset, ncalls, targ, tret>>

\* Line 266: `id1 not in self.object_modes[id2]`.
T_L266(t) ==
    /\ pc[t] = "L266"
    /\ pc' = [pc EXCEPT ![t] = IF targ[t].id1 \notin DOMAIN object_modes[targ[t].id2]
                               THEN "L267" ELSE "L271"]
    /\ UNCHANGED <<initial_amp, prevent_distortion, object_modes, last, heard,
                   shifts, requested_amp, seen_before_reset, ncalls, targ, tret>>

\* Lines 267-269: self.object_modes[id2].update({id1: CollisionInfo(...)}).
T_L267(t) ==
    /\ pc[t] = "L267"
    /\ object_modes' =
          PutEntry(object_modes, targ[t].id2, targ[t].id1,
                   CollisionInfo(GetObjectModes(MatOf[targ[t].id2], targ[t].z1),
                                 GetObjectModes(MatOf[targ[t].id1], targ[t].z2),
                                 initial_amp))
    /\ pc' = [pc EXCEPT ![t] = "L271"]
    /\ UNCHANGED <<initial_amp, prevent_distortion, last, heard,
                   shifts, requested_amp, seen_before_reset, ncalls, targ, tret>>

\* Lines 271-337: self.object_modes[id2][id1] raises KeyError when the entry
\* is not in the cache.
T_L271(t) ==
    /\ pc[t] = "L271"
    /\ LET a == targ[t]
           found1 == a.id1 \in a.rb_ids
           found2 == a.id2 \in a.rb_ids
       IN  IF Unresolved(a.obj_col, found1, found2)
           THEN /\ tret' = [tret EXCEPT ![t] = "none"]
                /\ pc' = [pc EXCEPT ![t] = "done"]
                /\ UNCHANGED object_modes
           ELSE IF MassLookupFails(a.obj_col, found1, found2)
           THEN /\ tret' = [tret EXCEPT ![t] = "error"]
                /\ pc' = [pc EXCEPT ![t] = "done"]
                /\ UNCHANGED object_modes
           ELSE IF ~HasEntry(object_modes, a.id2, a.id1)
           THEN /\ tret' = [tret EXCEPT ![t] = "KeyError"]
                /\ pc' = [pc EXCEPT ![t] = "done"]
                /\ UNCHANGED object_modes
           ELSE \E r \in {Synthesize(object_modes, a)} :
                /\ object_modes' = r.om
                /\ tret' = [tret EXCEPT ![t] = r.out]
                /\ pc' = [pc EXCEPT ![t] = IF r.out = "sound" THEN "L340" ELSE "done"]
    /\ UNCHANGED <<initial_amp, prevent_distortion, last, heard,
                   shifts, requested_amp, seen_before_reset, ncalls, targ>>

\* Lines 340-347: count_collisions on self.object_modes[id2][id1], and return.
T_L340(t) ==
    /\ pc[t] = "L340"
    /\ IF HasEntry(object_modes, targ[t].id2, targ[t].id1)
       THEN /\ object_modes' = Counted(object_modes, targ[t].id2, targ[t].id1)
            /\ UNCHANGED tret
       ELSE /\ tret' = [tret EXCEPT ![t] = "KeyError"]
            /\ UNCHANGED object_modes
    /\ pc' = [pc EXCEPT ![t] = "done"]
    /\ UNCHANGED <<initial_amp, prevent_distortion, last, heard,
                   shifts, requested_amp, seen_before_reset, ncalls, targ>>

\* The calls of the two threads: different keys, with the same outer id or not.
ConcArgs ==
    {<<a, b>> \in
        {[BaseArgs(<<2, 1>>) EXCEPT !.vel = k.vel, !.normals = k.normals] :
             k \in Kinematics}
        \X ({[BaseArgs(p) EXCEPT !.rb_ids = ids] : p \in {<<3, 1>>, <<1, 2>>},
                                                    ids \in {Ids, {1, 2}}}) :
        <<a.id2, a.id1>> # <<b.id2, b.id1>>}

InitConc ==
    /\ initial_amp \in AmpChoices
    /\ prevent_distortion \in BOOLEAN
    /\ object_modes = << >>
    /\ last = NoCall
    /\ heard = << >>
    /\ shifts = << >>
    /\ requested_amp = initial_amp
    /\ seen_before_reset = {}
    /\ ncalls = 0
    /\ \E c \in ConcArgs : targ = [t \in Threads |-> c[t]]
    /\ pc = [t \in Threads |-> "L264"]
    /\ tret = [t \in Threads |-> "none"]

NextConc ==
    \E t \in Threads :
        \/ T_L264(t) \/ T_L265(t) \/ T_L266(t) \/ T_L267(t) \/ T_L271(t) \/ T_L340(t)

SpecConc == InitConc /\ [][NextConc]_vars

---------------------------------------------------------------------------
(* Claims *)

Entry(k) == object_modes[k[1]][k[2]]

Called == last.op = "get_sound"

Sounded == Called /\ last.out = "sound"

\* a <= b; False whenever an operand is NaN.
FLe(a, b) == ~IsNaN(a) /\ ~IsNaN(b) /\ ~FGt(a, b)

\* C1: on a pair, the first sound-producing call uses the base amplitude and
\* records its normal speed as the reference speed; every later one uses
\* base amplitude * its normal speed / the first call's normal speed; the stored
\* amplitude and reference speed are not changed by later calls.
C1_AmplitudeContinuity ==
    /\ \A k \in Keys(object_modes) : Entry(k).amp = initial_amp
    /\ \A k \in DOMAIN heard :
          HasEntry(object_modes, k[1], k[2]) /\ Entry(k).init_speed = heard[k].speed
    /\ Sounded =>
          IF heard[last.key].n = 1
          THEN last.amp_raw = initial_amp /\ heard[last.key].speed = last.nspd
          ELSE last.amp_raw =
                  FDiv(FMul(initial_amp, last.nspd), heard[last.key].speed)

C1_Witness ==
    /\ Sounded
    /\ heard[last.key].n >= 2
    /\ IsFinite(last.amp_raw)
    /\ last.amp_raw # initial_amp
    /\ last.nspd # heard[last.key].speed

\* C2: a get_sound call for a body-body collision with zero relative velocity
\* (an invalid collision) returns no sound.
C2_InvalidCollisionNoSound == (Called /\ last.case = "invalid") => last.out = "none"

\* C3: a body-body collision with non-zero relative velocity and a body id
\* missing from the snapshot returns no sound, raises nothing and leaves the
\* pair's collision count as it was.
C3_UnresolvedBodyNoSound ==
    (Called /\ last.case = "body_unresolved") =>
        /\ last.out = "none"
        /\ Entry(last.key).count = last.count_before

C3_Witness ==
    Called /\ last.case = "body_unresolved" /\ last.count_before > 0

\* C4: an environment collision whose moving body is missing from the snapshot
\* yields no sound and never an error.
C4_EnvUnresolvedNoSound ==
    (Called /\ last.case = "env_unresolved") => last.out = "none"

\* C5: after reset, the next collision on a pair seen before the reset takes
\* the first-collision branch: the entry is recreated with count 0 and freshly
\* sampled ModeSets, the amplitude is the base amplitude, the reference speed
\* is this call's, and after the sound-producing call the count is 1.
C5_FirstBranchAfterReset ==
    (Called /\ last.revisit) =>
        /\ last.created /\ last.first /\ last.count_before = 0
        /\ Sounded =>
              /\ last.amp_raw = initial_amp
              /\ Entry(last.key).count = 1
              /\ Entry(last.key).init_speed = last.nspd
              /\ Entry(last.key).obj1_modes =
                    GetObjectModes(MatOf[last.key[1]], last.z[1])
              /\ Entry(last.key).obj2_modes =
                    ShiftDecay(GetObjectModes(MatOf[last.key[2]], last.z[2]), last.e)

C5_Witness == Sounded /\ last.revisit /\ last.nspd = Fin(2, 1)

\* C6: reset(initial_amp) leaves the synthesizer as a freshly constructed one
\* with that initial_amp: an empty cache, and every pair created afterwards
\* starts with the amplitude passed to reset.
C6_ResetLikeFreshInstance ==
    /\ initial_amp = requested_amp
    /\ \A k \in Keys(object_modes) : Entry(k).amp = requested_amp
    /\ (last.op = "reset" /\ last.out # "error") => object_modes = << >>

\* C7: with distortion prevention enabled, the amplitude applied to every
\* returned waveform is at most 0.99.
C7_AmplitudeAtMostCeiling ==
    (Sounded /\ prevent_distortion) => FLe(last.amp, Fin(99, 100))

Solo(a) ==
    LET r == Synthesize(EnsureEntry(<< >>, initial_amp, a), a)
        om == IF r.out = "sound" THEN Counted(r.om, a.id2, a.id1) ELSE r.om
    IN  [entry |-> om[a.id2][a.id1], out |-> r.out]

\* C9: two get_sound calls on different keys are independent under every
\* interleaving: when both have returned, the cache holds both entries, each
\* as a serial execution leaves it, and neither call failed.
C9_IndependentPairs ==
    (\A t \in Threads : pc[t] = "done") =>
        \A t \in Threads :
            /\ HasEntry(object_modes, targ[t].id2, targ[t].id1)
            /\ \E solo \in {Solo(targ[t])} :
                  /\ tret[t] = solo.out
                  /\ object_modes[targ[t].id2][targ[t].id1] = solo.entry


\* C10: a get_sound call changes no entry other than the one of its key
\* <<id2, id1>>, the entry of the swapped key included, and adds no other entry.
C10_OtherEntriesUnchanged ==
    [][last'.op = "get_sound" /\ ncalls' # ncalls =>
          /\ Keys(object_modes') \subseteq Keys(object_modes) \cup {last'.key}
          /\ \A k \in Keys(object_modes) \ {last'.key} :
                /\ HasEntry(object_modes', k[1], k[2])
                /\ object_modes'[k[1]][k[2]] = object_modes[k[1]][k[2]]]_vars

C10_Witness ==
    /\ Sounded
    /\ HasEntry(object_modes, last.key[2], last.key[1])
    /\ Entry(<<last.key[2], last.key[1]>>).count # Entry(last.key).count
    /\ Entry(<<last.key[2], last.key[1]>>).init_speed # Entry(last.key).init_speed

\* C11: a repeat collision of a pair (count > 0) adds, for each of the 10
\* modes, the noise drawn in that call to the stored onset power of BOTH
\* ModeSets of the pair.
C11_BothPowersPerturbed ==
    [][(last'.op = "get_sound" /\ last'.branch = "repeat") =>
          \A i \in 1..NumModes :
             /\ object_modes'[last'.key[1]][last'.key[2]].obj1_modes.powers[i]
                  = object_modes[last'.key[1]][last'.key[2]].obj1_modes.powers[i]
                    + last'.noise[1][i]
             /\ object_modes'[last'.key[1]][last'.key[2]].obj2_modes.powers[i]
                  = object_modes[last'.key[1]][last'.key[2]].obj2_modes.powers[i]
                    + last'.noise[2][i]]_vars

\* C12: while a pair's entry has count > 0, no call changes the frequencies
\* or the decay times of either of its stored ModeSets: they stay as the
\* first sound-producing collision left them, until the reset removes the
\* entry.
C12_RepeatKeepsFrequenciesAndDecays ==
    [][\A k \in Keys(object_modes) :
          (Entry(k).count > 0 /\ HasEntry(object_modes', k[1], k[2])) =>
             /\ object_modes'[k[1]][k[2]].obj1_modes.frequencies = Entry(k).obj1_modes.frequencies
             /\ object_modes'[k[1]][k[2]].obj1_modes.decay_times = Entry(k).obj1_modes.decay_times
             /\ object_modes'[k[1]][k[2]].obj2_modes.frequencies = Entry(k).obj2_modes.frequencies
             /\ object_modes'[k[1]][k[2]].obj2_modes.decay_times = Entry(k).obj2_modes.decay_times]_vars

C12_Witness ==
    /\ Sounded
    /\ last.branch = "repeat"
    /\ Entry(last.key).count = 3
    /\ Entry(last.key).obj1_modes.powers # Entry(last.key).obj2_modes.powers

\* C13: the count of every cached pair equals the number of calls on that
\* pair, since its entry was created, that returned a waveform; a call that
\* returns a waveform adds exactly one to the count of its pair, and a call
\* that returns no sound leaves it as it was.
C13_CountIsSoundingCalls ==
    /\ DOMAIN heard \subseteq Keys(object_modes)
    /\ \A k \in Keys(object_modes) :
          Entry(k).count = IF k \in DOMAIN heard THEN heard[k].n ELSE 0
    /\ Sounded => Entry(last.key).count = last.count_before + 1
    /\ (Called /\ last.out = "none") => Entry(last.key).count = last.count_before

\* A degenerate first attempt left one pair at count 0, and an unresolved
\* body left another pair at the count 1 of its earlier sound.
C13_Witness ==
    /\ Called
    /\ last.out = "none"
    /\ last.case = "body_unresolved"
    /\ Entry(last.key).count = 1
    /\ \E k \in DOMAIN shifts : k # last.key /\ Entry(k).count = 0

\* The three sequences of a ModeSet hold n values each.
ModesOfLen(m, n) ==
    Len(m.frequencies) = n /\ Len(m.powers) = n /\ Len(m.decay_times) = n

AllAtLeast(s, lo) == \A i \in 1..Len(s) : s[i] >= lo

\* C15: every ModeSet sampled from a material template has 10 frequencies,
\* 10 powers and 10 decay times, every frequency at least 20 Hz and every
\* decay time at least 1 ms, whatever the draws: a draw below a floor is
\* never stored, and the powers have no floor.  (The second ModeSet's decay
\* times are the sampled ones until line 409 shifts them.)
C15_SampledModesMeetFloors ==
    \A k \in Keys(object_modes) :
        /\ ModesOfLen(Entry(k).obj1_modes, NumModes)
        /\ ModesOfLen(Entry(k).obj2_modes, NumModes)
        /\ AllAtLeast(Entry(k).obj1_modes.frequencies, 20)
        /\ AllAtLeast(Entry(k).obj2_modes.frequencies, 20)
        /\ AllAtLeast(Entry(k).obj1_modes.decay_times, 1)
        /\ k \notin DOMAIN shifts => AllAtLeast(Entry(k).obj2_modes.decay_times, 1)

\* ModeSets sampled at the floors (20 Hz, 1 ms) next to ModeSets with powers
\* of -80 dB.
C15_Witness ==
    \E k1, k2 \in Keys(object_modes) :
        /\ Entry(k1).obj1_modes.frequencies[1] = 20
        /\ Entry(k1).obj1_modes.decay_times[1] = 1
        /\ Entry(k2).obj1_modes.powers[1] = -80

\* C16: the decay shift of line 409 is applied to the second ModeSet of a
\* pair once between the entry's creation and the reset: once it has been
\* applied, no later call on the pair changes the stored decay times of that
\* ModeSet, also when the first attempt returned no sound.
C16_DecayShiftedOnce ==
    [][\A k \in DOMAIN shifts :
          HasEntry(object_modes', k[1], k[2]) =>
             object_modes'[k[1]][k[2]].obj2_modes.decay_times
                = Entry(k).obj2_modes.decay_times]_vars

====
